---- MODULE Spec2Model ----
(***************************************************************************)
(* Model of the file commands of zenodo/modules/utils/cli.py: add_file,    *)
(* remove_file, rename_file and attach_file.                               *)
(*                                                                         *)
(* Every command is one invocation by a caller.  The caller works on its   *)
(* own database session: it resolves the record and the bucket, reads the  *)
(* object versions, assigns bucket.locked, creates object versions, dumps  *)
(* the file listing into the record, and only db.session.commit() makes    *)
(* those changes the committed state.  An exception that leaves the        *)
(* command before db.session.commit() leaves the committed state as it     *)
(* was.                                                                    *)
(***************************************************************************)
EXTENDS Integers, Sequences, FiniteSets, TLC

\* ------------------------------------------------------------------ bounds
\* Most ObjectVersion rows the buckets hold together: a command that would
\* append beyond it does not start.
MaxVersions == 3
\* Most commands started while another caller's command is in flight.
MaxOverlaps == 1

\* ------------------------------------------------------------------ sets
Procs == {"p1", "p2"}
\* The caller of the commands when they are run one at a time.
Caller == "p1"
RecordBuckets == {"r1"}
DepositBuckets == {"d1"}
Buckets == RecordBuckets \cup DepositBuckets
Keys == {"a", "b"}
\* Byte streams a caller can hand to add_file.
Streams == {<<1>>, <<1, 2>>}

\* file_id of an ObjectVersion without a file (a delete marker); also the
\* value standing for Python's None as the result of ObjectVersion.get.
NoFile == 0

VARIABLES
    store,      \* ContentStore: sequence of entries, a file id is a position
    dbLocked,   \* committed Bucket.locked, per bucket
    dbIndex,    \* committed ObjectVersion rows, per bucket, in insertion order
    dbListing,  \* committed record file listing, per bucket
    pc,         \* per caller: position in its command
    op,         \* per caller: the command and its arguments
    obj,        \* per caller: file id of the object found by the first get
    fileId,     \* per caller: file id the command will attach (file_id)
    sLocked,    \* per caller: Bucket.locked as held in its session
    sIndex,     \* per caller: ObjectVersion rows as seen in its session
    sListing,   \* per caller: record file listing as held in its session
    base,       \* per caller: number of committed rows per bucket at resolve
    pre,        \* per caller: the committed state when the command started
    overlaps    \* commands started while another one was in flight

vars == <<store, dbLocked, dbIndex, dbListing, pc, op, obj, fileId,
          sLocked, sIndex, sListing, base, pre, overlaps>>

dbVars == <<dbLocked, dbIndex, dbListing>>
sessVars == <<sLocked, sIndex, sListing>>

\* ------------------------------------------------------------------ ContentStore
\* Length of a byte stream, as add_file measures it (seek to the end, tell).
StreamSize(s) == Len(s)

\* Content identifier: a digest of the bytes.
RECURSIVE Digest(_)
Digest(s) == IF s = <<>> THEN 7 ELSE (s[1] + 31 * Digest(Tail(s))) % 65536

\* Position of the entry holding these bytes, or NoFile.
Lookup(st, s) ==
    IF \E i \in DOMAIN st : st[i].digest = Digest(s)
    THEN CHOOSE i \in DOMAIN st : st[i].digest = Digest(s)
    ELSE NoFile

\* A store that keeps every ingested stream as an entry of its own.
Ingest_NoDedup(st, s) ==
    Append(st, [digest |-> Digest(s), size |-> StreamSize(s)])

\* Store after ingesting a stream: identical bytes reuse their entry.
Ingest(st, s) ==
    IF Lookup(st, s) # NoFile THEN st
    ELSE Append(st, [digest |-> Digest(s), size |-> StreamSize(s)])

\* ------------------------------------------------------------------ ObjectVersionIndex
\* Positions of the is-latest rows of a key.
Heads(idx, k) == {i \in DOMAIN idx : idx[i].key = k /\ idx[i].head}

\* ObjectVersion.get: file id of the is-latest version of the key, or NoFile
\* when the key is absent or its latest version is a delete marker.
Get(idx, k) ==
    IF Heads(idx, k) = {} THEN NoFile
    ELSE idx[CHOOSE i \in Heads(idx, k) : \A j \in Heads(idx, k) : j <= i].file

\* ObjectVersion.create: the former is-latest row of the key loses the flag,
\* a new is-latest row is appended.
Put(idx, k, f) ==
    [i \in 1..(Len(idx) + 1) |->
        IF i = Len(idx) + 1 THEN [key |-> k, file |-> f, head |-> TRUE]
        ELSE IF idx[i].key = k THEN [idx[i] EXCEPT !.head = FALSE]
        ELSE idx[i]]

\* create is refused on a locked bucket, on a key that has a live version
\* and for a file id the store does not hold.
PutOK(locked, idx, st, k, f) ==
    /\ ~locked
    /\ Get(idx, k) = NoFile
    /\ f \in DOMAIN st

\* ObjectVersion.delete: appends a delete marker.
Delete(idx, k) == Put(idx, k, NoFile)

\* delete is refused on a locked bucket and on a key without a live version.
DeleteOK(locked, idx, k) ==
    /\ ~locked
    /\ Get(idx, k) # NoFile

\* The live rows: is-latest and not a delete marker.
Live(idx) == {i \in DOMAIN idx : idx[i].head /\ idx[i].file # NoFile}

\* record.files dumped: (key, checksum, size) of every live version.
ListingOf(idx, st) ==
    {[key |-> idx[i].key,
      checksum |-> st[idx[i].file].digest,
      size |-> st[idx[i].file].size] : i \in Live(idx)}

\* ------------------------------------------------------------------ sessions
\* How a command can end, and the positions at which none is in flight.
Outcomes == {"done", "NotFound", "AlreadyExists", "aborted", "failed"}
Terminal == {"idle"} \cup Outcomes
AfterUnlock == {"delete", "create", "relock", "flush", "commit"}

NoOp == [kind |-> "none", bucket |-> "r1", key |-> "a", newKey |-> "a",
         stream |-> <<>>, replace |-> FALSE, byId |-> FALSE,
         srcBucket |-> "r1", srcKey |-> "a", rows |-> 0,
         overtaken |-> FALSE]

\* Rows the commands in flight will have appended at their end.
RECURSIVE PendingRows(_)
PendingRows(ps) ==
    IF ps = {} THEN 0
    ELSE LET q == CHOOSE x \in ps : TRUE
         IN (IF pc[q] \notin Terminal THEN op[q].rows ELSE 0)
              + PendingRows(ps \ {q})

\* Committed rows of all buckets together.
RECURSIVE TotalRows(_)
TotalRows(bs) ==
    IF bs = {} THEN 0
    ELSE LET b == CHOOSE x \in bs : TRUE
         IN Len(dbIndex[b]) + TotalRows(bs \ {b})

\* The rows a starting command will append fit under the bound.
Room(n) == TotalRows(Buckets) + PendingRows(Procs) + n <= MaxVersions

\* No caller runs a command.
Quiescent == \A q \in Procs : pc[q] = "idle"

\* A caller starts a command when it runs none.  Commands that follow one
\* another are started by Caller; a command started while another caller's
\* command is in flight is counted, and is started while the buckets hold
\* fewer than MaxVersions - 1 rows.
MayStart(p) ==
    /\ pc[p] = "idle"
    /\ IF Quiescent
       THEN p = Caller /\ overlaps' = overlaps
       ELSE /\ overlaps < MaxOverlaps
            /\ TotalRows(Buckets) < MaxVersions - 1
            /\ overlaps' = overlaps + 1

\* The caller's session loads the committed state (resolve, line 79).
LoadSession(p) ==
    /\ sLocked' = [sLocked EXCEPT ![p] = dbLocked]
    /\ sIndex' = [sIndex EXCEPT ![p] = dbIndex]
    /\ sListing' = [sListing EXCEPT ![p] = dbListing]
    /\ base' = [base EXCEPT ![p] = [b \in Buckets |-> Len(dbIndex[b])]]
    /\ pre' = [pre EXCEPT ![p] = [locked |-> dbLocked, index |-> dbIndex,
                                  listing |-> dbListing]]

\* bucket.locked = v in the caller's session.
SetLocked(p, b, v) == sLocked' = [sLocked EXCEPT ![p][b] = v]

\* bucket.locked = True in the caller's session, and a note for the claims
\* (no command reads it): every other caller that has unlocked this bucket
\* and has a delete or a create on it still to make is marked overtaken.
Relock(p, b) ==
    /\ SetLocked(p, b, TRUE)
    /\ op' = [q \in Procs |->
                IF q # p /\ op[q].bucket = b /\ pc[q] \in {"delete", "create"}
                THEN [op[q] EXCEPT !.overtaken = TRUE] ELSE op[q]]

\* Rows of the committed index after a session commits: the rows the
\* session appended are added, the flags it cleared are cleared.
CommitIndex(dbI, sI, n) ==
    [i \in 1..(Len(dbI) + Len(sI) - n) |->
        IF i <= Len(dbI)
        THEN IF i <= n THEN [dbI[i] EXCEPT !.head = dbI[i].head /\ sI[i].head]
             ELSE dbI[i]
        ELSE sI[i - Len(dbI) + n]]

\* record.commit() and db.session.commit(): what the session changed since
\* it loaded the committed state becomes committed, for every bucket.
CommitSession(p) ==
    /\ dbLocked' = [b \in Buckets |->
                      IF sLocked[p][b] # pre[p].locked[b]
                      THEN sLocked[p][b] ELSE dbLocked[b]]
    /\ dbIndex' = [b \in Buckets |->
                     CommitIndex(dbIndex[b], sIndex[p][b], base[p][b])]
    /\ dbListing' = [b \in Buckets |->
                       IF sListing[p][b] # pre[p].listing[b]
                       THEN sListing[p][b] ELSE dbListing[b]]

\* record.files.flush(): the listing is recomputed from the bucket.
FlushListing(p, b) ==
    sListing' = [sListing EXCEPT ![p][b] = ListingOf(sIndex[p][b], store)]

Goto(p, l) == pc' = [pc EXCEPT ![p] = l]

\* An exception leaves the command at once: the lines after the raising
\* call do not run, so the session stays as it is and is never committed.
Raise(p) ==
    /\ pc' = [pc EXCEPT ![p] = "failed"]
    /\ UNCHANGED sessVars

\* ------------------------------------------------------------------ Init
\* The committed state of a fresh installation: every bucket locked, no
\* file in any bucket.
FreshDb == [locked |-> [b \in Buckets |-> TRUE],
            index |-> [b \in Buckets |-> <<>>],
            listing |-> [b \in Buckets |-> {}]]

Init ==
    /\ store = <<>>
    /\ dbLocked = FreshDb.locked
    /\ dbIndex = FreshDb.index
    /\ dbListing = FreshDb.listing
    /\ pc = [p \in Procs |-> "idle"]
    /\ op = [p \in Procs |-> NoOp]
    /\ obj = [p \in Procs |-> NoFile]
    /\ fileId = [p \in Procs |-> NoFile]
    /\ sLocked = [p \in Procs |-> FreshDb.locked]
    /\ sIndex = [p \in Procs |-> FreshDb.index]
    /\ sListing = [p \in Procs |-> FreshDb.listing]
    /\ base = [p \in Procs |-> [b \in Buckets |-> 0]]
    /\ pre = [p \in Procs |-> FreshDb]
    /\ overlaps = 0

\* The command has ended (a return, or the exception has left it): the
\* caller's application context and its session are gone.
Exit(p) ==
    /\ pc[p] \in Outcomes
    /\ pc' = [pc EXCEPT ![p] = "idle"]
    /\ op' = [op EXCEPT ![p] = NoOp]
    /\ obj' = [obj EXCEPT ![p] = NoFile]
    /\ fileId' = [fileId EXCEPT ![p] = NoFile]
    /\ sLocked' = [sLocked EXCEPT ![p] = FreshDb.locked]
    /\ sIndex' = [sIndex EXCEPT ![p] = FreshDb.index]
    /\ sListing' = [sListing EXCEPT ![p] = FreshDb.listing]
    /\ base' = [base EXCEPT ![p] = [b \in Buckets |-> 0]]
    /\ pre' = [pre EXCEPT ![p] = FreshDb]
    /\ UNCHANGED <<store, dbVars, overlaps>>

\* ------------------------------------------------------------------ add_file
\* Rows add_file appends: none when it refuses the key, a delete marker and
\* the new version when it replaces, else the new version.
AddRows(found, r) == IF found = NoFile THEN 1 ELSE IF r THEN 2 ELSE 0

\* add_file without lines 84-88: an existing key is not refused.
AddBegin_NoRefusal(p) ==
    /\ MayStart(p)
    /\ \E b \in RecordBuckets, k \in Keys, s \in Streams, r \in BOOLEAN :
        /\ Room(AddRows(Get(dbIndex[b], k), r))
        /\ LoadSession(p)
        /\ op' = [op EXCEPT ![p] = [NoOp EXCEPT !.kind = "add", !.bucket = b,
                    !.key = k, !.stream = s, !.replace = r,
                    !.rows = AddRows(Get(dbIndex[b], k), r)]]
        /\ obj' = [obj EXCEPT ![p] = Get(dbIndex[b], k)]
        /\ Goto(p, "confirm")
    /\ UNCHANGED <<store, dbVars, fileId>>

\* Lines 79-88: resolve, get, and the refusal of an existing key.
AddBegin(p) ==
    /\ MayStart(p)
    /\ \E b \in RecordBuckets, k \in Keys, s \in Streams, r \in BOOLEAN :
        /\ Room(AddRows(Get(dbIndex[b], k), r))
        /\ LoadSession(p)
        /\ op' = [op EXCEPT ![p] = [NoOp EXCEPT !.kind = "add", !.bucket = b,
                    !.key = k, !.stream = s, !.replace = r,
                    !.rows = AddRows(Get(dbIndex[b], k), r)]]
        /\ obj' = [obj EXCEPT ![p] = Get(dbIndex[b], k)]
        /\ Goto(p, IF Get(dbIndex[b], k) # NoFile /\ ~r
                   THEN "AlreadyExists" ELSE "confirm")
    /\ UNCHANGED <<store, dbVars, fileId>>

\* Lines 126-127 and 137-138: the confirmation and bucket.locked = False.
AddConfirm(p) ==
    /\ pc[p] = "confirm" /\ op[p].kind = "add"
    /\ \E yes \in BOOLEAN :
        IF yes
        THEN /\ SetLocked(p, op[p].bucket, FALSE)
             /\ Goto(p, IF obj[p] # NoFile /\ op[p].replace
                        THEN "delete" ELSE "create")
        ELSE /\ Goto(p, "aborted")
             /\ UNCHANGED sLocked
    /\ UNCHANGED <<store, dbVars, op, obj, fileId, sIndex, sListing, base, pre, overlaps>>

\* Lines 128-129: the old version of a replaced key is deleted.
AddDelete(p) ==
    /\ pc[p] = "delete" /\ op[p].kind = "add"
    /\ LET b == op[p].bucket IN
        IF DeleteOK(sLocked[p][b], sIndex[p][b], op[p].key)
        THEN /\ sIndex' = [sIndex EXCEPT ![p][b] = Delete(@, op[p].key)]
             /\ Goto(p, "create")
             /\ UNCHANGED <<sLocked, sListing>>
        ELSE Raise(p)
    /\ UNCHANGED <<store, dbVars, op, obj, fileId, base, pre, overlaps>>

\* add_file whose line 130 creates the version on the file of the old
\* object instead of the stored stream.
AddCreate_OldFile(p) ==
    /\ pc[p] = "create" /\ op[p].kind = "add"
    /\ LET b == op[p].bucket
           st == Ingest(store, op[p].stream)
           f == IF obj[p] # NoFile THEN obj[p] ELSE Lookup(st, op[p].stream)
       IN /\ store' = st
          /\ IF PutOK(sLocked[p][b], sIndex[p][b], st, op[p].key, f)
             THEN /\ sIndex' = [sIndex EXCEPT ![p][b] = Put(@, op[p].key, f)]
                  /\ Goto(p, "relock")
                  /\ UNCHANGED <<sLocked, sListing>>
             ELSE Raise(p)
    /\ UNCHANGED <<dbVars, op, obj, fileId, base, pre, overlaps>>

\* Line 130: the stream is stored and a version of the key created.
AddCreate(p) ==
    /\ pc[p] = "create" /\ op[p].kind = "add"
    /\ LET b == op[p].bucket
           st == Ingest(store, op[p].stream)
           f == Lookup(st, op[p].stream)
       IN /\ store' = st
          /\ IF PutOK(sLocked[p][b], sIndex[p][b], st, op[p].key, f)
             THEN /\ sIndex' = [sIndex EXCEPT ![p][b] = Put(@, op[p].key, f)]
                  /\ Goto(p, "relock")
                  /\ UNCHANGED <<sLocked, sListing>>
             ELSE Raise(p)
    /\ UNCHANGED <<dbVars, op, obj, fileId, base, pre, overlaps>>

\* add_file without line 131: the bucket is not locked again.
AddRelock_Omitted(p) ==
    /\ pc[p] = "relock" /\ op[p].kind = "add"
    /\ Goto(p, "flush")
    /\ UNCHANGED <<store, dbVars, op, obj, fileId, sessVars, base, pre, overlaps>>

\* Line 131: bucket.locked = True.
AddRelock(p) ==
    /\ pc[p] = "relock" /\ op[p].kind = "add"
    /\ Relock(p, op[p].bucket)
    /\ Goto(p, "flush")
    /\ UNCHANGED <<store, dbVars, obj, fileId, sIndex, sListing, base, pre, overlaps>>

\* Line 133: record.files.flush().
AddFlush(p) ==
    /\ pc[p] = "flush" /\ op[p].kind = "add"
    /\ FlushListing(p, op[p].bucket)
    /\ Goto(p, "commit")
    /\ UNCHANGED <<store, dbVars, op, obj, fileId, sLocked, sIndex, base, pre, overlaps>>

\* Lines 134-136: record.commit() and db.session.commit().
AddCommit(p) ==
    /\ pc[p] = "commit" /\ op[p].kind = "add"
    /\ CommitSession(p)
    /\ Goto(p, "done")
    /\ UNCHANGED <<store, op, obj, fileId, sessVars, base, pre, overlaps>>

\* add_file whose session is committed although an exception left it.
AddFail_Commits(p) ==
    /\ pc[p] \in AfterUnlock /\ op[p].kind = "add"
    /\ CommitSession(p)
    /\ Raise(p)
    /\ UNCHANGED <<store, op, obj, fileId, base, pre, overlaps>>

\* An exception raised by a call of lines 128-135 leaves the command: the
\* later lines do not run and nothing is committed.
AddFail(p) ==
    /\ pc[p] \in AfterUnlock /\ op[p].kind = "add"
    /\ Raise(p)
    /\ UNCHANGED <<store, dbVars, op, obj, fileId, base, pre, overlaps>>

\* ------------------------------------------------------------------ remove_file
\* Lines 147-153: resolve, get, and the refusal of an absent key.
RemoveBegin(p) ==
    /\ MayStart(p)
    /\ \E b \in RecordBuckets, k \in Keys :
        LET found == Get(dbIndex[b], k) IN
        /\ Room(IF found = NoFile THEN 0 ELSE 1)
        /\ LoadSession(p)
        /\ op' = [op EXCEPT ![p] = [NoOp EXCEPT !.kind = "remove",
                    !.bucket = b, !.key = k,
                    !.rows = IF found = NoFile THEN 0 ELSE 1]]
        /\ obj' = [obj EXCEPT ![p] = found]
        /\ Goto(p, IF found = NoFile THEN "NotFound" ELSE "confirm")
    /\ UNCHANGED <<store, dbVars, fileId>>

\* Lines 176-177 and 184-185: the confirmation and bucket.locked = False.
RemoveConfirm(p) ==
    /\ pc[p] = "confirm" /\ op[p].kind = "remove"
    /\ \E yes \in BOOLEAN :
        IF yes
        THEN /\ SetLocked(p, op[p].bucket, FALSE)
             /\ Goto(p, "delete")
        ELSE /\ Goto(p, "aborted")
             /\ UNCHANGED sLocked
    /\ UNCHANGED <<store, dbVars, op, obj, fileId, sIndex, sListing, base, pre, overlaps>>

\* remove_file that deletes every file of the bucket instead of the one
\* under its key.
RemoveDelete_AllKeys(p) ==
    /\ pc[p] = "delete" /\ op[p].kind = "remove"
    /\ LET b == op[p].bucket
           other == CHOOSE k \in Keys : k # op[p].key
       IN
        IF DeleteOK(sLocked[p][b], sIndex[p][b], op[p].key)
        THEN /\ sIndex' = [sIndex EXCEPT ![p][b] =
                    IF Get(@, other) # NoFile
                    THEN Delete(Delete(@, op[p].key), other)
                    ELSE Delete(@, op[p].key)]
             /\ Goto(p, "relock")
             /\ UNCHANGED <<sLocked, sListing>>
        ELSE Raise(p)
    /\ UNCHANGED <<store, dbVars, op, obj, fileId, base, pre, overlaps>>

\* remove_file that takes the is-latest flag from the version instead of
\* calling ObjectVersion.delete: no delete marker is appended.
RemoveDelete_ClearsHead(p) ==
    /\ pc[p] = "delete" /\ op[p].kind = "remove"
    /\ LET b == op[p].bucket IN
        IF DeleteOK(sLocked[p][b], sIndex[p][b], op[p].key)
        THEN /\ sIndex' = [sIndex EXCEPT ![p][b] =
                    [i \in DOMAIN @ |->
                        IF @[i].key = op[p].key
                        THEN [@[i] EXCEPT !.head = FALSE] ELSE @[i]]]
             /\ Goto(p, "relock")
             /\ UNCHANGED <<sLocked, sListing>>
        ELSE Raise(p)
    /\ UNCHANGED <<store, dbVars, op, obj, fileId, base, pre, overlaps>>

\* Line 178: ObjectVersion.delete(bucket, obj.key).
RemoveDelete(p) ==
    /\ pc[p] = "delete" /\ op[p].kind = "remove"
    /\ LET b == op[p].bucket IN
        IF DeleteOK(sLocked[p][b], sIndex[p][b], op[p].key)
        THEN /\ sIndex' = [sIndex EXCEPT ![p][b] = Delete(@, op[p].key)]
             /\ Goto(p, "relock")
             /\ UNCHANGED <<sLocked, sListing>>
        ELSE Raise(p)
    /\ UNCHANGED <<store, dbVars, op, obj, fileId, base, pre, overlaps>>

\* Line 179: bucket.locked = True.
RemoveRelock(p) ==
    /\ pc[p] = "relock" /\ op[p].kind = "remove"
    /\ Relock(p, op[p].bucket)
    /\ Goto(p, "flush")
    /\ UNCHANGED <<store, dbVars, obj, fileId, sIndex, sListing, base, pre, overlaps>>

\* Line 180: record.files.flush().
RemoveFlush(p) ==
    /\ pc[p] = "flush" /\ op[p].kind = "remove"
    /\ FlushListing(p, op[p].bucket)
    /\ Goto(p, "commit")
    /\ UNCHANGED <<store, dbVars, op, obj, fileId, sLocked, sIndex, base, pre, overlaps>>

\* Lines 181-183: record.commit() and db.session.commit().
RemoveCommit(p) ==
    /\ pc[p] = "commit" /\ op[p].kind = "remove"
    /\ CommitSession(p)
    /\ Goto(p, "done")
    /\ UNCHANGED <<store, op, obj, fileId, sessVars, base, pre, overlaps>>

\* remove_file that commits what its session holds when a call of lines
\* 178-181 raises.
RemoveFail_Commits(p) ==
    /\ pc[p] \in AfterUnlock /\ op[p].kind = "remove"
    /\ CommitSession(p)
    /\ Raise(p)
    /\ UNCHANGED <<store, op, obj, fileId, base, pre, overlaps>>

\* An exception raised by a call of lines 178-182 leaves the command.
RemoveFail(p) ==
    /\ pc[p] \in AfterUnlock /\ op[p].kind = "remove"
    /\ Raise(p)
    /\ UNCHANGED <<store, dbVars, op, obj, fileId, base, pre, overlaps>>

\* ------------------------------------------------------------------ rename_file
\* Lines 195-208: resolve, both gets, and the two refusals.
RenameBegin(p) ==
    /\ MayStart(p)
    /\ \E b \in RecordBuckets, k \in Keys, nk \in Keys :
        LET found == Get(dbIndex[b], k)
            taken == Get(dbIndex[b], nk)
            n == IF found = NoFile \/ taken # NoFile THEN 0 ELSE 2
        IN
        /\ Room(n)
        /\ LoadSession(p)
        /\ op' = [op EXCEPT ![p] = [NoOp EXCEPT !.kind = "rename",
                    !.bucket = b, !.key = k, !.newKey = nk, !.rows = n]]
        /\ obj' = [obj EXCEPT ![p] = found]
        /\ Goto(p, IF found = NoFile THEN "NotFound"
                   ELSE IF taken # NoFile THEN "AlreadyExists"
                   ELSE "confirm")
    /\ UNCHANGED <<store, dbVars, fileId>>

\* rename_file that sets bucket.locked = False before it asks for the
\* confirmation.
RenameConfirm_UnlocksFirst(p) ==
    /\ pc[p] = "confirm" /\ op[p].kind = "rename"
    /\ SetLocked(p, op[p].bucket, FALSE)
    /\ \E yes \in BOOLEAN :
        IF yes
        THEN /\ fileId' = [fileId EXCEPT ![p] = obj[p]]
             /\ Goto(p, "delete")
        ELSE /\ Goto(p, "aborted")
             /\ UNCHANGED fileId
    /\ UNCHANGED <<store, dbVars, op, obj, sIndex, sListing, base, pre, overlaps>>

\* Lines 210-215 and 223-224: the confirmation, bucket.locked = False and
\* file_id = obj.file.id.
RenameConfirm(p) ==
    /\ pc[p] = "confirm" /\ op[p].kind = "rename"
    /\ \E yes \in BOOLEAN :
        IF yes
        THEN /\ SetLocked(p, op[p].bucket, FALSE)
             /\ fileId' = [fileId EXCEPT ![p] = obj[p]]
             /\ Goto(p, "delete")
        ELSE /\ Goto(p, "aborted")
             /\ UNCHANGED <<sLocked, fileId>>
    /\ UNCHANGED <<store, dbVars, op, obj, sIndex, sListing, base, pre, overlaps>>

\* rename_file without line 216: the old key is not deleted.
RenameDelete_Omitted(p) ==
    /\ pc[p] = "delete" /\ op[p].kind = "rename"
    /\ Goto(p, "create")
    /\ UNCHANGED <<store, dbVars, op, obj, fileId, sessVars, base, pre, overlaps>>

\* Line 216: ObjectVersion.delete(bucket, obj.key).
RenameDelete(p) ==
    /\ pc[p] = "delete" /\ op[p].kind = "rename"
    /\ LET b == op[p].bucket IN
        IF DeleteOK(sLocked[p][b], sIndex[p][b], op[p].key)
        THEN /\ sIndex' = [sIndex EXCEPT ![p][b] = Delete(@, op[p].key)]
             /\ Goto(p, "create")
             /\ UNCHANGED <<sLocked, sListing>>
        ELSE Raise(p)
    /\ UNCHANGED <<store, dbVars, op, obj, fileId, base, pre, overlaps>>

\* rename_file that dumps the file listing right after the create of line
\* 217, before the bucket is locked again.
RenameCreate_SyncsEagerly(p) ==
    /\ pc[p] = "create" /\ op[p].kind = "rename"
    /\ LET b == op[p].bucket IN
        IF PutOK(sLocked[p][b], sIndex[p][b], store, op[p].newKey, fileId[p])
        THEN /\ sIndex' = [sIndex EXCEPT
                              ![p][b] = Put(@, op[p].newKey, fileId[p])]
             /\ sListing' = [sListing EXCEPT ![p][b] =
                    ListingOf(Put(sIndex[p][b], op[p].newKey, fileId[p]),
                              store)]
             /\ Goto(p, "relock")
             /\ UNCHANGED sLocked
        ELSE Raise(p)
    /\ UNCHANGED <<store, dbVars, op, obj, fileId, base, pre, overlaps>>

\* Line 217: ObjectVersion.create(bucket, new_key, _file_id=file_id).
RenameCreate(p) ==
    /\ pc[p] = "create" /\ op[p].kind = "rename"
    /\ LET b == op[p].bucket IN
        IF PutOK(sLocked[p][b], sIndex[p][b], store, op[p].newKey, fileId[p])
        THEN /\ sIndex' = [sIndex EXCEPT
                              ![p][b] = Put(@, op[p].newKey, fileId[p])]
             /\ Goto(p, "relock")
             /\ UNCHANGED <<sLocked, sListing>>
        ELSE Raise(p)
    /\ UNCHANGED <<store, dbVars, op, obj, fileId, base, pre, overlaps>>

\* Line 218: record.files.bucket.locked = True.
RenameRelock(p) ==
    /\ pc[p] = "relock" /\ op[p].kind = "rename"
    /\ Relock(p, op[p].bucket)
    /\ Goto(p, "flush")
    /\ UNCHANGED <<store, dbVars, obj, fileId, sIndex, sListing, base, pre, overlaps>>

\* rename_file without line 219: the listing is not recomputed.
RenameFlush_Omitted(p) ==
    /\ pc[p] = "flush" /\ op[p].kind = "rename"
    /\ Goto(p, "commit")
    /\ UNCHANGED <<store, dbVars, op, obj, fileId, sessVars, base, pre, overlaps>>

\* Line 219: record.files.flush().
RenameFlush(p) ==
    /\ pc[p] = "flush" /\ op[p].kind = "rename"
    /\ FlushListing(p, op[p].bucket)
    /\ Goto(p, "commit")
    /\ UNCHANGED <<store, dbVars, op, obj, fileId, sLocked, sIndex, base, pre, overlaps>>

\* Lines 220-222: record.commit() and db.session.commit().
RenameCommit(p) ==
    /\ pc[p] = "commit" /\ op[p].kind = "rename"
    /\ CommitSession(p)
    /\ Goto(p, "done")
    /\ UNCHANGED <<store, op, obj, fileId, sessVars, base, pre, overlaps>>

\* rename_file that commits what its session holds when a call of lines
\* 216-221 raises.
RenameFail_Commits(p) ==
    /\ pc[p] \in AfterUnlock /\ op[p].kind = "rename"
    /\ CommitSession(p)
    /\ Raise(p)
    /\ UNCHANGED <<store, op, obj, fileId, base, pre, overlaps>>

\* An exception raised by a call of lines 216-221 leaves the command.
RenameFail(p) ==
    /\ pc[p] \in AfterUnlock /\ op[p].kind = "rename"
    /\ Raise(p)
    /\ UNCHANGED <<store, dbVars, op, obj, fileId, base, pre, overlaps>>

\* ------------------------------------------------------------------ attach_file
\* attach_file that sets record2.files.bucket.locked = False before its
\* checks of lines 259-275.
AttachBegin_UnlocksFirst(p) ==
    /\ MayStart(p)
    /\ \E byId \in BOOLEAN, id \in 1..(Len(store) + 1),
          b1 \in Buckets, k1 \in Keys, b2 \in Buckets, k2 \in Keys :
        LET found == IF byId THEN id ELSE Get(dbIndex[b1], k1)
            taken == Get(dbIndex[b2], k2)
            n == IF found = NoFile \/ taken # NoFile THEN 0 ELSE 1
        IN
        /\ byId => (b1 = b2 /\ k1 = k2)
        /\ ~byId => id = 1
        /\ Room(n)
        /\ sLocked' = [sLocked EXCEPT ![p] = [dbLocked EXCEPT ![b2] = FALSE]]
        /\ sIndex' = [sIndex EXCEPT ![p] = dbIndex]
        /\ sListing' = [sListing EXCEPT ![p] = dbListing]
        /\ base' = [base EXCEPT ![p] = [b \in Buckets |-> Len(dbIndex[b])]]
        /\ pre' = [pre EXCEPT ![p] = [locked |-> dbLocked, index |-> dbIndex,
                                      listing |-> dbListing]]
        /\ op' = [op EXCEPT ![p] = [NoOp EXCEPT !.kind = "attach",
                    !.byId = byId, !.srcBucket = b1, !.srcKey = k1,
                    !.bucket = b2, !.key = k2, !.rows = n]]
        /\ fileId' = [fileId EXCEPT ![p] = found]
        /\ obj' = [obj EXCEPT ![p] = taken]
        /\ Goto(p, IF found = NoFile THEN "NotFound"
                   ELSE IF taken # NoFile THEN "AlreadyExists"
                   ELSE "confirm")
    /\ UNCHANGED <<store, dbVars>>

\* Lines 253-275: the file is named by its id or found under key1 of the
\* first record or deposit; key2 must not exist on the second one.
AttachBegin(p) ==
    /\ MayStart(p)
    /\ \E byId \in BOOLEAN, id \in 1..(Len(store) + 1),
          b1 \in Buckets, k1 \in Keys, b2 \in Buckets, k2 \in Keys :
        LET found == IF byId THEN id ELSE Get(dbIndex[b1], k1)
            taken == Get(dbIndex[b2], k2)
            n == IF found = NoFile \/ taken # NoFile THEN 0 ELSE 1
        IN
        /\ byId => (b1 = b2 /\ k1 = k2)
        /\ ~byId => id = 1
        /\ Room(n)
        /\ LoadSession(p)
        /\ op' = [op EXCEPT ![p] = [NoOp EXCEPT !.kind = "attach",
                    !.byId = byId, !.srcBucket = b1, !.srcKey = k1,
                    !.bucket = b2, !.key = k2, !.rows = n]]
        /\ fileId' = [fileId EXCEPT ![p] = found]
        /\ obj' = [obj EXCEPT ![p] = taken]
        /\ Goto(p, IF found = NoFile THEN "NotFound"
                   ELSE IF taken # NoFile THEN "AlreadyExists"
                   ELSE "confirm")
    /\ UNCHANGED <<store, dbVars>>

\* attach_file that unlocks the bucket of the first record as well.
AttachConfirm_UnlocksSource(p) ==
    /\ pc[p] = "confirm" /\ op[p].kind = "attach"
    /\ \E yes \in BOOLEAN :
        IF yes
        THEN /\ sLocked' = [sLocked EXCEPT ![p][op[p].bucket] = FALSE,
                                           ![p][op[p].srcBucket] = FALSE]
             /\ Goto(p, "create")
        ELSE /\ Goto(p, "aborted")
             /\ UNCHANGED sLocked
    /\ UNCHANGED <<store, dbVars, op, obj, fileId, sIndex, sListing, base, pre, overlaps>>

\* Lines 277-281 and 290-291: the confirmation and
\* record2.files.bucket.locked = False.
AttachConfirm(p) ==
    /\ pc[p] = "confirm" /\ op[p].kind = "attach"
    /\ \E yes \in BOOLEAN :
        IF yes
        THEN /\ SetLocked(p, op[p].bucket, FALSE)
             /\ Goto(p, "create")
        ELSE /\ Goto(p, "aborted")
             /\ UNCHANGED sLocked
    /\ UNCHANGED <<store, dbVars, op, obj, fileId, sIndex, sListing, base, pre, overlaps>>

\* Line 283: ObjectVersion.create(bucket2, key2, _file_id=file_id).
AttachCreate(p) ==
    /\ pc[p] = "create" /\ op[p].kind = "attach"
    /\ LET b == op[p].bucket IN
        IF PutOK(sLocked[p][b], sIndex[p][b], store, op[p].key, fileId[p])
        THEN /\ sIndex' = [sIndex EXCEPT ![p][b] = Put(@, op[p].key, fileId[p])]
             /\ Goto(p, "relock")
             /\ UNCHANGED <<sLocked, sListing>>
        ELSE Raise(p)
    /\ UNCHANGED <<store, dbVars, op, obj, fileId, base, pre, overlaps>>

\* Lines 284-285: the bucket is locked again only if pid_type2 is 'recid'.
AttachRelock(p) ==
    /\ pc[p] = "relock" /\ op[p].kind = "attach"
    /\ IF op[p].bucket \in RecordBuckets
       THEN Relock(p, op[p].bucket)
       ELSE UNCHANGED <<sLocked, op>>
    /\ Goto(p, "flush")
    /\ UNCHANGED <<store, dbVars, obj, fileId, sIndex, sListing, base, pre, overlaps>>

\* Line 286: record2.files.flush().
AttachFlush(p) ==
    /\ pc[p] = "flush" /\ op[p].kind = "attach"
    /\ FlushListing(p, op[p].bucket)
    /\ Goto(p, "commit")
    /\ UNCHANGED <<store, dbVars, op, obj, fileId, sLocked, sIndex, base, pre, overlaps>>

\* Lines 287-289: record2.commit() and db.session.commit().
AttachCommit(p) ==
    /\ pc[p] = "commit" /\ op[p].kind = "attach"
    /\ CommitSession(p)
    /\ Goto(p, "done")
    /\ UNCHANGED <<store, op, obj, fileId, sessVars, base, pre, overlaps>>

\* An exception raised by a call of lines 283-288 leaves the command.
AttachFail(p) ==
    /\ pc[p] \in AfterUnlock /\ op[p].kind = "attach"
    /\ Raise(p)
    /\ UNCHANGED <<store, dbVars, op, obj, fileId, base, pre, overlaps>>

\* ------------------------------------------------------------------ specifications
\* Commands run one at a time, each to its end.
Next ==
    \/ AddBegin(Caller) \/ AddConfirm(Caller) \/ AddDelete(Caller)
    \/ AddCreate(Caller) \/ AddRelock(Caller) \/ AddFlush(Caller)
    \/ AddCommit(Caller) \/ AddFail(Caller)
    \/ RemoveBegin(Caller) \/ RemoveConfirm(Caller) \/ RemoveDelete(Caller)
    \/ RemoveRelock(Caller) \/ RemoveFlush(Caller) \/ RemoveCommit(Caller)
    \/ RemoveFail(Caller)
    \/ RenameBegin(Caller) \/ RenameConfirm(Caller) \/ RenameDelete(Caller)
    \/ RenameCreate(Caller) \/ RenameRelock(Caller) \/ RenameFlush(Caller)
    \/ RenameCommit(Caller) \/ RenameFail(Caller)
    \/ AttachBegin(Caller) \/ AttachConfirm(Caller) \/ AttachCreate(Caller)
    \/ AttachRelock(Caller) \/ AttachFlush(Caller) \/ AttachCommit(Caller)
    \/ AttachFail(Caller) \/ Exit(Caller)

Spec == Init /\ [][Next]_vars

\* Commands of independent callers, interleaved step by step.
NextConc ==
    \E p \in Procs :
        \/ AddBegin(p) \/ AddConfirm(p) \/ AddDelete(p) \/ AddCreate(p)
        \/ AddRelock(p) \/ AddFlush(p) \/ AddCommit(p) \/ AddFail(p)
        \/ RemoveBegin(p) \/ RemoveConfirm(p) \/ RemoveDelete(p)
        \/ RemoveRelock(p) \/ RemoveFlush(p) \/ RemoveCommit(p)
        \/ RemoveFail(p)
        \/ RenameBegin(p) \/ RenameConfirm(p) \/ RenameDelete(p)
        \/ RenameCreate(p) \/ RenameRelock(p) \/ RenameFlush(p)
        \/ RenameCommit(p) \/ RenameFail(p)
        \/ AttachBegin(p) \/ AttachConfirm(p) \/ AttachCreate(p)
        \/ AttachRelock(p) \/ AttachFlush(p) \/ AttachCommit(p)
        \/ AttachFail(p) \/ Exit(p)

SpecConc == Init /\ [][NextConc]_vars

\* ------------------------------------------------------------------ claims
\* The bucket a command works on, and the positions between its
\* bucket.locked = False and its bucket.locked = True.
Target(p) == op[p].bucket
InSection == {"delete", "create", "relock"}

\* list(bucket): the live entries of a bucket, as (key, file id).
List(idx) == {[key |-> idx[i].key, file |-> idx[i].file] : i \in Live(idx)}

HoldsUnlocked(p, b) ==
    /\ pc[p] \notin Terminal
    /\ Target(p) = b
    /\ pre[p].locked[b] /\ ~sLocked[p][b]

\* C3 as stated: of two callers that unlock the same bucket concurrently
\* only one succeeds (the other observes LockConflict), so a bucket is never
\* held unlocked by two callers at once.
C3_OnlyOneUnlockSucceeds ==
    \A b \in Buckets :
        Cardinality({p \in Procs : HoldsUnlocked(p, b)}) <= 1

\* C4 as stated: no two commands are between their own unlock and relock
\* on the same bucket at the same time.
C4_NoTwoInMutationSection ==
    \A p \in Procs, q \in Procs :
        (p # q /\ pc[p] \in InSection /\ pc[q] \in InSection)
            => Target(p) # Target(q)

\* The committed state is what it was when the caller's command started.
CommittedUnchanged(p) ==
    /\ dbLocked = pre[p].locked
    /\ dbIndex = pre[p].index
    /\ dbListing = pre[p].listing

\* The caller's session is as it was loaded: nothing unlocked, no row
\* appended, no listing rewritten.
SessionUntouched(p) ==
    /\ sLocked[p] = pre[p].locked
    /\ sIndex[p] = pre[p].index
    /\ sListing[p] = pre[p].listing

\* C5: after a successful Add, Remove, Rename or Attach has committed, the
\* record's file listing is exactly the (key, checksum, size) of the live
\* versions of the bucket.
C5_ListingMatchesLiveVersions ==
    \A p \in Procs :
        pc[p] = "done" =>
            dbListing[Target(p)] = ListingOf(dbIndex[Target(p)], store)

\* C5 witness: a Rename has committed and the listing has changed with it.
C5_Witness ==
    \E p \in Procs :
        /\ pc[p] = "done" /\ op[p].kind = "rename"
        /\ dbListing[Target(p)] # pre[p].listing[Target(p)]
        /\ \E e \in dbListing[Target(p)] : e.key = op[p].newKey

\* C6: after a successful Rename(bucket, key, newKey) the live version of
\* newKey has the file that the live version of key had before, and
\* get(bucket, key) finds nothing.
C6_RenameKeepsContentEntry ==
    \A p \in Procs :
        (pc[p] = "done" /\ op[p].kind = "rename") =>
            /\ Get(pre[p].index[Target(p)], op[p].key) # NoFile
            /\ Get(dbIndex[Target(p)], op[p].newKey)
                  = Get(pre[p].index[Target(p)], op[p].key)
            /\ Get(dbIndex[Target(p)], op[p].key) = NoFile

\* C6 witness: a Rename has committed.
C6_Witness ==
    \E p \in Procs :
        /\ pc[p] = "done" /\ op[p].kind = "rename"
        /\ Get(dbIndex[Target(p)], op[p].newKey) \in DOMAIN store

\* C7: an Add without replace of a key that is live returns AlreadyExists
\* and leaves the lock state, the version index and the listing as they
\* were.
C7_AddOfLiveKeyRefused ==
    \A p \in Procs :
        (/\ op[p].kind = "add" /\ ~op[p].replace
         /\ Get(pre[p].index[Target(p)], op[p].key) # NoFile) =>
            /\ pc[p] = "AlreadyExists"
            /\ CommittedUnchanged(p)
            /\ SessionUntouched(p)

\* C7 witness: an Add without replace has found its key live, the key
\* being live since an earlier command committed it.
C7_Witness ==
    \E p \in Procs :
        /\ pc[p] = "AlreadyExists" /\ op[p].kind = "add" /\ ~op[p].replace
        /\ \E e \in dbListing[Target(p)] : e.key = op[p].key

Refused(p) == pc[p] \in {"NotFound", "AlreadyExists"}

\* An Attach that names its file by a key its source bucket does not hold.
AttachOfAbsentKey(p) ==
    /\ op[p].kind = "attach" /\ ~op[p].byId
    /\ Get(pre[p].index[op[p].srcBucket], op[p].srcKey) = NoFile

BucketAsBefore(p, b) ==
    /\ dbLocked[b] = pre[p].locked[b] /\ sLocked[p][b] = pre[p].locked[b]
    /\ dbIndex[b] = pre[p].index[b] /\ sIndex[p][b] = pre[p].index[b]
    /\ dbListing[b] = pre[p].listing[b]
    /\ sListing[p][b] = pre[p].listing[b]

\* C10 as stated: for every Attach, at every point of it and after it, the
\* source bucket's lock state, version index and listing are what they were
\* before.
C10_AttachLeavesSourceBucket ==
    \A p \in Procs :
        (op[p].kind = "attach" /\ ~op[p].byId) =>
            BucketAsBefore(p, op[p].srcBucket)

\* C10 as amended: the same, for every Attach whose source bucket is not
\* its destination bucket; the destination is the only bucket unlocked.
C10_AttachLeavesOtherSourceBucket ==
    \A p \in Procs :
        op[p].kind = "attach" =>
            \A b \in Buckets \ {Target(p)} : BucketAsBefore(p, b)

\* C10 witness: an Attach from one bucket to another has committed.
C10_Witness ==
    \E p \in Procs :
        /\ pc[p] = "done" /\ op[p].kind = "attach" /\ ~op[p].byId
        /\ op[p].srcBucket # Target(p)
        /\ Get(dbIndex[Target(p)], op[p].key)
              = Get(dbIndex[op[p].srcBucket], op[p].srcKey)

\* C11: no half-renamed file is ever committed: while and after a Rename,
\* also one that fails between its delete and its create, the committed
\* bucket holds the file under its old key or under the new key, and the
\* old key is committed deleted only together with the new key live.
C11_NoHalfRenameCommitted ==
    \A p \in Procs :
        (op[p].kind = "rename" /\ obj[p] # NoFile) =>
            LET old == Get(dbIndex[Target(p)], op[p].key)
                new == Get(dbIndex[Target(p)], op[p].newKey)
            IN /\ old = obj[p] \/ new = obj[p]
               /\ old = NoFile => new = obj[p]
               /\ pc[p] = "failed" => dbIndex = pre[p].index

\* C11 witness: a Rename has failed after its delete and before its create;
\* its session holds the old key deleted and the new key not live.
C11_Witness ==
    \E p \in Procs :
        /\ pc[p] = "failed" /\ op[p].kind = "rename"
        /\ Get(sIndex[p][Target(p)], op[p].key) = NoFile
        /\ Get(sIndex[p][Target(p)], op[p].newKey) = NoFile
        /\ Get(dbIndex[Target(p)], op[p].key) = obj[p]

\* The files the live versions of a bucket reference whose content is the
\* given byte stream.
FilesOf(idx, st, s) ==
    {idx[i].file : i \in {j \in Live(idx) : st[idx[j].file].digest = Digest(s)}}

\* C12: the store holds one entry per content, and after an Add the version
\* of its key and every other live version with the same bytes, under any
\* key of any bucket, reference the same entry.
C12_IdenticalContentSharesEntry ==
    /\ \A i, j \in DOMAIN store :
          store[i].digest = store[j].digest => i = j
    /\ \A p \in Procs :
          (pc[p] = "done" /\ op[p].kind = "add") =>
              /\ Get(dbIndex[Target(p)], op[p].key) \in DOMAIN store
              /\ store[Get(dbIndex[Target(p)], op[p].key)].digest
                    = Digest(op[p].stream)
              /\ \A b \in Buckets :
                    FilesOf(dbIndex[b], store, op[p].stream)
                      \subseteq {Get(dbIndex[Target(p)], op[p].key)}

\* C12 witness: an Add has committed bytes that another key of the bucket
\* already held.
C12_Witness ==
    \E p \in Procs : \E k \in Keys \ {op[p].key} :
        /\ pc[p] = "done" /\ op[p].kind = "add"
        /\ Get(dbIndex[Target(p)], k) # NoFile
        /\ Get(dbIndex[Target(p)], k) = Get(dbIndex[Target(p)], op[p].key)
        /\ Get(pre[p].index[Target(p)], op[p].key) = NoFile

\* C13: in every committed state, also of interleaved commands, a key of a
\* bucket has at most one is-latest ObjectVersion.
C13_AtMostOneLatest ==
    \A b \in Buckets, k \in Keys : Cardinality(Heads(dbIndex[b], k)) <= 1

\* The versions of the first index are, in order, the first versions of the
\* second one: same key and same file, whatever the is-latest flags.
IsHistoryPrefix(old, new) ==
    /\ Len(old) <= Len(new)
    /\ \A i \in 1..Len(old) :
          new[i].key = old[i].key /\ new[i].file = old[i].file

\* C14: the committed history only grows: the versions committed before a
\* command are, unchanged and in order, the first versions committed after
\* it; a Remove appends a delete marker of its key, a Rename a delete marker
\* of the old key and a version of the new one.
C14_HistoryAppendOnly ==
    \A p \in Procs :
        /\ \A b \in Buckets : IsHistoryPrefix(pre[p].index[b], dbIndex[b])
        /\ (pc[p] = "done" /\ op[p].kind = "remove") =>
              LET old == pre[p].index[Target(p)]
                  new == dbIndex[Target(p)]
              IN /\ Len(new) = Len(old) + 1
                 /\ new[Len(new)].key = op[p].key
                 /\ new[Len(new)].file = NoFile
        /\ (pc[p] = "done" /\ op[p].kind = "rename") =>
              LET old == pre[p].index[Target(p)]
                  new == dbIndex[Target(p)]
              IN /\ Len(new) = Len(old) + 2
                 /\ new[Len(old) + 1].key = op[p].key
                 /\ new[Len(old) + 1].file = NoFile
                 /\ new[Len(new)].key = op[p].newKey
                 /\ new[Len(new)].file = obj[p]

\* C14 witness: a Remove has committed; the version it removed is still in
\* the history, followed by the delete marker.
C14_Witness ==
    \E p \in Procs :
        /\ pc[p] = "done" /\ op[p].kind = "remove"
        /\ \E i \in DOMAIN dbIndex[Target(p)] :
              /\ dbIndex[Target(p)][i].key = op[p].key
              /\ dbIndex[Target(p)][i].file = obj[p]
              /\ obj[p] # NoFile
        /\ Get(dbIndex[Target(p)], op[p].key) = NoFile

\* The caller's session holds every row its command appends.
MutationsDone(p) ==
    /\ Len(sIndex[p][Target(p)]) = base[p][Target(p)] + op[p].rows
    /\ op[p].rows > 0

\* The position of a command tells the steps it has taken, given whether
\* the relock of its bucket is among them: unlock, then the index
\* mutations, then the relock, then the one dump of the listing, then the
\* commit.
StepsInOrder(p, relocks) ==
    LET b == Target(p) IN
    /\ pc[p] = "confirm" => SessionUntouched(p) /\ CommittedUnchanged(p)
    /\ pc[p] \in InSection =>
          /\ ~sLocked[p][b]
          /\ sListing[p] = pre[p].listing
          /\ CommittedUnchanged(p)
    /\ pc[p] = "relock" => MutationsDone(p)
    /\ pc[p] = "flush" =>
          /\ MutationsDone(p)
          /\ sLocked[p][b] = relocks
          /\ sListing[p] = pre[p].listing
          /\ CommittedUnchanged(p)
    /\ pc[p] = "commit" =>
          /\ MutationsDone(p)
          /\ sLocked[p][b] = relocks
          /\ sListing[p][b] = ListingOf(sIndex[p][b], store)
          /\ CommittedUnchanged(p)
    /\ pc[p] = "done" =>
          /\ dbIndex = sIndex[p]
          /\ dbIndex[b] # pre[p].index[b]
          /\ dbLocked[b] = relocks
          /\ dbListing[b] = sListing[p][b]
          /\ dbListing[b] = ListingOf(sIndex[p][b], store)

C16_LateFailureCommitsNothing ==
    \A p \in Procs :
        (pc[p] = "failed" /\ MutationsDone(p)) =>
            /\ \A b \in Buckets : Len(dbIndex[b]) = base[p][b]
            /\ dbIndex = pre[p].index
            /\ dbListing = pre[p].listing
            /\ \A b \in Buckets :
                  dbListing[b] = ListingOf(dbIndex[b], store)

\* C16 witness: a Remove or an Attach has failed at its commit, after the
\* listing was dumped in its session.
C16_Witness ==
    \E p \in Procs :
        /\ pc[p] = "failed" /\ op[p].kind \in {"remove", "attach"}
        /\ MutationsDone(p)
        /\ sListing[p][Target(p)] = ListingOf(sIndex[p][Target(p)], store)
        /\ sListing[p][Target(p)] # dbListing[Target(p)]

\* C17: every create or delete on a bucket is made while the bucket is
\* unlocked: a caller that has just made its last create or delete holds
\* the bucket unlocked, and no other command on the bucket has locked it
\* again between the caller's unlock and that create or delete.
C17_MutationOnlyWhileUnlocked ==
    \A p \in Procs :
        pc[p] = "relock" =>
            /\ ~sLocked[p][Target(p)]
            /\ ~op[p].overtaken

\* The key a command introduces into its bucket, for the commands that add
\* a key without replacing it.
Introduces(p, k) ==
    \/ op[p].kind = "add" /\ ~op[p].replace /\ op[p].key = k
    \/ op[p].kind = "attach" /\ op[p].key = k
    \/ op[p].kind = "rename" /\ op[p].newKey = k

\* C19: of two commands that introduce the same key, not live before either
\* of them, into the same bucket, at most one succeeds.
C19_OneIntroducerSucceeds ==
    \A p, q \in Procs : \A k \in Keys :
        (/\ p # q
         /\ Target(p) = Target(q)
         /\ Introduces(p, k) /\ Introduces(q, k)
         /\ Get(pre[p].index[Target(p)], k) = NoFile
         /\ Get(pre[q].index[Target(q)], k) = NoFile) =>
            ~(pc[p] = "done" /\ pc[q] = "done")

\* C18: a successful Remove changes only its key: the key has no live
\* version afterwards, the live version and file of every other key of the
\* bucket and every other bucket are as before; a Remove of a key without a
\* live version returns NotFound.
C18_RemoveChangesOnlyItsKey ==
    \A p \in Procs :
        op[p].kind = "remove" =>
            LET b == Target(p) IN
            /\ Get(pre[p].index[b], op[p].key) = NoFile => pc[p] = "NotFound"
            /\ pc[p] = "done" =>
                  /\ Get(dbIndex[b], op[p].key) = NoFile
                  /\ \A k \in Keys \ {op[p].key} :
                        Get(dbIndex[b], k) = Get(pre[p].index[b], k)
                  /\ {e \in dbListing[b] : e.key # op[p].key}
                        = {e \in pre[p].listing[b] : e.key # op[p].key}
                  /\ \A c \in Buckets \ {b} :
                        /\ dbIndex[c] = pre[p].index[c]
                        /\ dbListing[c] = pre[p].listing[c]
                        /\ dbLocked[c] = pre[p].locked[c]

\* C18 witness: a Remove has committed in a bucket that holds a file under
\* another key.
C18_Witness ==
    \E p \in Procs : \E k \in Keys \ {op[p].key} :
        /\ pc[p] = "done" /\ op[p].kind = "remove"
        /\ Get(pre[p].index[Target(p)], op[p].key) # NoFile
        /\ Get(dbIndex[Target(p)], k) # NoFile

\* C20: a command whose confirmation is declined unlocks nothing, makes no
\* index mutation, dumps no listing and commits nothing: the lock state,
\* the index and the listing, committed and in the caller's session, are
\* what they were.
C20_DeclineChangesNothing ==
    \A p \in Procs :
        pc[p] = "aborted" =>
            /\ \A b \in Buckets : BucketAsBefore(p, b)
            /\ \A b \in Buckets : Len(sIndex[p][b]) = base[p][b]

\* C20 witness: the confirmation of a command on a bucket that holds a file
\* has been declined.
C20_Witness ==
    \E p \in Procs :
        /\ pc[p] = "aborted"
        /\ op[p].kind \in {"add", "remove", "rename", "attach"}
        /\ dbListing[Target(p)] # {}

====
